---- MODULE Spec2Model ----
(***************************************************************************)
(* Model of ottoscale.py: a Flask control surface that scales a pool of    *)
(* Docker containers up, down or to a target count between MIN_CONTAINERS  *)
(* and MAX_CONTAINERS.  The container runtime is the sequence `containers` *)
(* (in the runtime's listing order); every runtime call (list, run, stop,  *)
(* remove) is one atomic step and may fail.  Process 0 is the main thread  *)
(* (startup reconciliation); processes 1..NumHandlers are request threads. *)
(***************************************************************************)
EXTENDS Integers, Sequences, FiniteSets, TLC

\* ---------------------------------------------------------------- bounds
NumHandlers == 2
MaxMin == 2
MaxMax == 2
MaxInitial == 1
MaxContainers == 3
MaxClock == 1

\* ------------------------------------------------------------ processes
Main == 0
Handlers == 1..NumHandlers
Procs == {Main} \cup Handlers

VARIABLES
    MIN_CONTAINERS,
    MAX_CONTAINERS,
    docker_client,
    containers,
    now,
    pc,
    op,
    target_count,
    current,
    todo,
    container,
    response,
    calls

vars == <<MIN_CONTAINERS, MAX_CONTAINERS, docker_client, containers, now,
          pc, op, target_count, current, todo, container, response, calls>>

config == <<MIN_CONTAINERS, MAX_CONTAINERS, docker_client>>

\* ------------------------------------------------------ runtime inventory
\* A container name is either one composed by create_container
\* (CONTAINER_PREFIX, ordinal, timestamp) or a name without the prefix.
Name(n, t) == [pre |-> TRUE, ord |-> n, ts |-> t]
Foreign == [pre |-> FALSE, ord |-> 0, ts |-> 0]

\* managed_by: the container carries the label managed_by=auto_scaler, as
\* every container create_container() starts does.
Container(n, s) == [name |-> n, status |-> s, managed_by |-> TRUE]

\* the managed set taken by label instead of by name
has_label(c) == c.managed_by

startswith_prefix(c) == c.name.pre

is_running(c) == c.status = "running"

\* docker_client.containers.list(all=True) filtered by prefix
managed(cs) == SelectSeq(cs, startswith_prefix)

\* the listing with the except clause returning what it has, not []
get_managed_containers_partial(cs, listOk) ==
    IF ~docker_client THEN <<>> ELSE managed(cs)

\* get_managed_containers(): listOk is whether the list query succeeded
get_managed_containers(cs, listOk) ==
    IF ~docker_client THEN <<>>
    ELSE IF listOk THEN managed(cs)
    ELSE <<>>

running(cs) == SelectSeq(cs, is_running)

\* get_running_count()
get_running_count(cs, listOk) == Len(running(get_managed_containers(cs, listOk)))

Names(cs) == {cs[i].name : i \in 1..Len(cs)}

InsertAt(cs, i, c) == SubSeq(cs, 1, i) \o <<c>> \o SubSeq(cs, i + 1, Len(cs))

RemoveName(cs, n) == SelectSeq(cs, LAMBDA c : c.name # n)

StopName(cs, n) ==
    [i \in 1..Len(cs) |->
        IF cs[i].name = n THEN [cs[i] EXCEPT !.status = "exited"] ELSE cs[i]]

\* The running managed containers the runtime really holds
RunningCount == Len(running(managed(containers)))

\* ------------------------------------------------------------ bookkeeping
\* Per request: runtime calls issued (list, run, stop, rm), calls of
\* create_container / remove_container (create, remove) and how many of
\* them returned (created, removed); countErr records a get_running_count
\* whose value did not come from a successful list query.
NoCalls == [list |-> 0, run |-> 0, stop |-> 0, rm |-> 0,
            create |-> 0, remove |-> 0, created |-> 0, removed |-> 0,
            countErr |-> FALSE]

Listed(c) == IF docker_client THEN [c EXCEPT !.list = @ + 1] ELSE c

Counted(c, listOk) ==
    [Listed(c) EXCEPT !.countErr = @ \/ ~docker_client \/ ~listOk]

\* ------------------------------------------------------------- responses
NoResponse == [status |-> 0]

LimitResponse(msg, cur) ==
    [status |-> 400, success |-> FALSE, message |-> msg, current_count |-> cur]

BadRequest(msg) == [status |-> 400, success |-> FALSE, message |-> msg]

ErrorResponse == [status |-> 500, success |-> FALSE, message |-> "exception"]

\* the success response built without the second count
SuccessResponseStale(msg, prev, cur) ==
    [status |-> 200, success |-> TRUE, message |-> msg,
     previous_count |-> prev, current_count |-> prev]

SuccessResponse(msg, prev, cur) ==
    [status |-> 200, success |-> TRUE, message |-> msg,
     previous_count |-> prev, current_count |-> cur]

\* "container_name": container.name / "removed_container": container_name
WithName(r, p) ==
    CASE op[p] = "up" ->
            [status |-> r.status, success |-> r.success, message |-> r.message,
             container_name |-> container[p][1],
             previous_count |-> r.previous_count, current_count |-> r.current_count]
      [] op[p] = "down" ->
            [status |-> r.status, success |-> r.success, message |-> r.message,
             removed_container |-> container[p][1],
             previous_count |-> r.previous_count, current_count |-> r.current_count]
      [] OTHER -> r

\* the loop of scale_set catching the exception and going round again
RaisePcSwallow(p) ==
    IF p = Main THEN "serving"
    ELSE IF op[p] = "set" /\ pc[p] = "create_run" THEN "create_name"
    ELSE IF op[p] = "set" /\ pc[p] \in {"remove_stop", "remove_rm"} THEN "remove_select"
    ELSE "done"

\* An exception escaping create_container / remove_container: the route's
\* except clause answers 500; the startup block logs a warning and goes on
\* to app.run.
RaisePc(p) == IF p = Main THEN "serving" ELSE "done"

RaiseResponse(p) == IF p = Main THEN NoResponse ELSE ErrorResponse

\* jsonify({"success": False, "message": str(e)}), 500 for the exceptions the
\* program raises itself
Exception(msg) == [status |-> 500, success |-> FALSE, message |-> msg]

RaiseWith(p, msg) == IF p = Main THEN NoResponse ELSE Exception(msg)

\* ---------------------------------------------------- request bodies
\* The JSON body of POST /scale/set as request.get_json() sees it.
NoBody == [json |-> "none"]
Object(v) == [json |-> "object", count |-> v]
Absent == [type |-> "absent"]
Null == [type |-> "null"]
IntVal(n) == [type |-> "int", val |-> n]
StrVal(s) == [type |-> "str", chars |-> s]
FloatVal(t) == [type |-> "float", tenths |-> t]

Digits == [ch \in {"0", "1", "2", "3", "4", "5", "6", "7", "8", "9"} |->
              CASE ch = "0" -> 0 [] ch = "1" -> 1 [] ch = "2" -> 2
                [] ch = "3" -> 3 [] ch = "4" -> 4 [] ch = "5" -> 5
                [] ch = "6" -> 6 [] ch = "7" -> 7 [] ch = "8" -> 8
                [] ch = "9" -> 9]

IsDigit(ch) == ch \in DOMAIN Digits

DigitVal(ch) == Digits[ch]

RECURSIVE digits_value(_)
digits_value(s) ==
    IF s = <<>> THEN 0
    ELSE 10 * digits_value(SubSeq(s, 1, Len(s) - 1)) + DigitVal(s[Len(s)])

RECURSIVE lstrip(_)
lstrip(s) == IF s # <<>> /\ s[1] = " " THEN lstrip(Tail(s)) ELSE s

RECURSIVE rstrip(_)
rstrip(s) ==
    IF s # <<>> /\ s[Len(s)] = " " THEN rstrip(SubSeq(s, 1, Len(s) - 1)) ELSE s

ValueError == [ok |-> FALSE, val |-> 0]
Value(n) == [ok |-> TRUE, val |-> n]

\* Python's int() on the JSON value of "count"
int_of(v) ==
    CASE v.type = "int" -> Value(v.val)
      [] v.type = "float" ->
            Value(IF v.tenths >= 0 THEN v.tenths \div 10
                  ELSE 0 - ((0 - v.tenths) \div 10))
      [] v.type = "str" ->
            LET t == rstrip(lstrip(v.chars))
                signed == t # <<>> /\ t[1] \in {"-", "+"}
                d == IF signed THEN Tail(t) ELSE t
            IN  IF d # <<>> /\ \A i \in 1..Len(d) : IsDigit(d[i])
                THEN Value(IF signed /\ t[1] = "-"
                           THEN 0 - digits_value(d) ELSE digits_value(d))
                ELSE ValueError
      [] OTHER -> ValueError

\* data.get('count'): None when the key is absent or null
get_count(data) ==
    IF data.count.type \in {"absent", "null"} THEN Null ELSE data.count

MaxTarget == MaxMax + 1

Bodies ==
    {NoBody, Object(Absent), Object(Null)}
    \cup {Object(IntVal(n)) : n \in 0..MaxTarget}
    \cup {Object(StrVal(s)) : s \in {<<"2">>, <<" ", "1">>, <<"a">>, <<>>,
                                  <<"-", "1">>, <<"1", "0">>}}
    \cup {Object(FloatVal(15))}

\* ------------------------------------------------------------------ Init
InitialNames == {Name(1, 0), Name(2, 0), Foreign}

InitialContainers ==
    {cs \in UNION {[1..n -> [name : InitialNames, status : {"running", "exited"},
                              managed_by : BOOLEAN]]
                      : n \in 0..MaxInitial} :
        /\ \A i, j \in 1..Len(cs) : cs[i].name = cs[j].name => i = j
        /\ \A i \in 1..Len(cs) : cs[i].name.pre => cs[i].managed_by}

Init ==
    /\ MIN_CONTAINERS \in 0..MaxMin
    /\ MAX_CONTAINERS \in 1..MaxMax
    /\ MIN_CONTAINERS <= MAX_CONTAINERS
    /\ docker_client \in BOOLEAN
    /\ containers \in InitialContainers
    /\ now = 0
    /\ pc = [p \in Procs |-> IF p = Main THEN "startup" ELSE "idle"]
    /\ op = [p \in Procs |-> IF p = Main THEN "startup" ELSE "none"]
    /\ target_count = [p \in Procs |-> 0]
    /\ current = [p \in Procs |-> 0]
    /\ todo = [p \in Procs |-> 0]
    /\ container = [p \in Procs |-> <<>>]
    /\ response = [p \in Procs |-> NoResponse]
    /\ calls = [p \in Procs |-> NoCalls]

\* --------------------------------------------------------- create_container
\* create_container() up to the name: the client check and the listing that
\* gives the ordinal.
CreateName(p) ==
    /\ pc[p] = "create_name"
    /\ UNCHANGED <<config, containers, now, op, target_count, current, todo>>
    /\ IF ~docker_client
       THEN /\ pc' = [pc EXCEPT ![p] = RaisePc(p)]
            /\ response' = [response EXCEPT ![p] =
                                RaiseWith(p, "Docker client not available")]
            /\ calls' = [calls EXCEPT ![p].create = @ + 1]
            /\ UNCHANGED container
       ELSE \E listOk \in BOOLEAN :
            LET count == Len(get_managed_containers(containers, listOk))
            IN  /\ container' = [container EXCEPT ![p] = <<Name(count + 1, now)>>]
                /\ calls' = [calls EXCEPT ![p] = [Listed(@) EXCEPT !.create = @ + 1]]
                /\ pc' = [pc EXCEPT ![p] = "create_run"]
                /\ UNCHANGED response

\* the loops of creates going round once more than range(diff)
AfterCreateExtra(p) ==
    CASE op[p] = "up" -> "reread"
      [] op[p] = "set" -> IF todo[p] > 0 THEN "create_name" ELSE "reread"
      [] op[p] = "startup" -> IF todo[p] > 0 THEN "create_name" ELSE "serving"

\* Where a caller of create_container() goes once it returns
AfterCreate(p) ==
    CASE op[p] = "up" -> "reread"
      [] op[p] = "set" -> IF todo[p] > 1 THEN "create_name" ELSE "reread"
      [] op[p] = "startup" -> IF todo[p] > 1 THEN "create_name" ELSE "serving"

\* What create_container() / remove_container() return stays in the
\* caller's local variable: scale_up and scale_down keep it for the
\* response, the loops of scale_set and of the startup block drop it.
Returned(p) == IF op[p] \in {"up", "down"} THEN container[p] ELSE <<>>

\* The runtime refuses a name in use; it may refuse for any other reason.
RunAccepts(n) == n \notin Names(containers) /\ Len(containers) < MaxContainers

\* docker_client.containers.run(...)
CreateRun(p) ==
    /\ pc[p] = "create_run"
    /\ UNCHANGED <<config, now, op, target_count, current>>
    /\ \/ /\ RunAccepts(container[p][1])
          /\ \E i \in 0..Len(containers) :
                containers' = InsertAt(containers, i,
                                       Container(container[p][1], "running"))
          /\ calls' = [calls EXCEPT ![p].run = @ + 1, ![p].created = @ + 1]
          /\ todo' = [todo EXCEPT ![p] = IF @ > 0 THEN @ - 1 ELSE 0]
          /\ pc' = [pc EXCEPT ![p] = AfterCreate(p)]
          /\ container' = [container EXCEPT ![p] = Returned(p)]
          /\ UNCHANGED response
       \/ /\ calls' = [calls EXCEPT ![p].run = @ + 1]
          /\ pc' = [pc EXCEPT ![p] = RaisePc(p)]
          /\ response' = [response EXCEPT ![p] = RaiseResponse(p)]
          /\ container' = [container EXCEPT ![p] = <<>>]
          /\ UNCHANGED <<containers, todo>>

\* --------------------------------------------------------- remove_container
\* the listing taken without the status filter
candidates_any(cs) == cs

\* [c for c in containers if c.status == 'running']
candidates(cs) == running(cs)

\* the first element of the listing taken instead of the last
pick_first(cs) == cs[1]

\* containers[-1]
pick(cs) == cs[Len(cs)]

\* remove_container() up to the selection of containers[-1]
RemoveSelect(p) ==
    /\ pc[p] = "remove_select"
    /\ UNCHANGED <<config, containers, now, op, target_count, current, todo>>
    /\ IF ~docker_client
       THEN /\ pc' = [pc EXCEPT ![p] = RaisePc(p)]
            /\ response' = [response EXCEPT ![p] =
                                RaiseWith(p, "Docker client not available")]
            /\ calls' = [calls EXCEPT ![p].remove = @ + 1]
            /\ UNCHANGED container
       ELSE \E listOk \in BOOLEAN :
            LET cs == candidates(get_managed_containers(containers, listOk))
            IN  /\ calls' = [calls EXCEPT ![p] = [Listed(@) EXCEPT !.remove = @ + 1]]
                /\ IF cs = <<>>
                   THEN /\ pc' = [pc EXCEPT ![p] = RaisePc(p)]
                        /\ response' = [response EXCEPT ![p] =
                                RaiseWith(p, "No running containers to remove")]
                        /\ UNCHANGED container
                   ELSE /\ container' = [container EXCEPT ![p] = <<pick(cs).name>>]
                        /\ pc' = [pc EXCEPT ![p] = "remove_stop"]
                        /\ UNCHANGED response

\* The selected container still exists in the runtime
Exists(p) == container[p] # <<>> /\ container[p][1] \in Names(containers)

\* the failure of stop passed over, the remove issued all the same
StopIgnored(p) == "remove_rm"

\* container.stop raising inside the try of remove_container
StopRaises(p) == RaisePc(p)

\* container.stop(timeout=10)
RemoveStop(p) ==
    /\ pc[p] = "remove_stop"
    /\ UNCHANGED <<config, now, op, target_count, current, todo>>
    /\ \/ /\ Exists(p)
          /\ containers' = StopName(containers, container[p][1])
          /\ calls' = [calls EXCEPT ![p].stop = @ + 1]
          /\ pc' = [pc EXCEPT ![p] = "remove_rm"]
          /\ UNCHANGED <<container, response>>
       \/ /\ calls' = [calls EXCEPT ![p].stop = @ + 1]
          /\ pc' = [pc EXCEPT ![p] = StopRaises(p)]
          /\ response' = [response EXCEPT ![p] = RaiseResponse(p)]
          /\ container' = [container EXCEPT ![p] = <<>>]
          /\ UNCHANGED containers

\* the loop of removes going round once less than range(abs(diff))
AfterRemoveShort(p) ==
    CASE op[p] = "down" -> "reread"
      [] op[p] = "set" -> IF todo[p] > 2 THEN "remove_select" ELSE "reread"

\* Where a caller of remove_container() goes once it returns
AfterRemove(p) ==
    CASE op[p] = "down" -> "reread"
      [] op[p] = "set" -> IF todo[p] > 1 THEN "remove_select" ELSE "reread"

\* container.remove(): the handles other requests hold on the removed
\* container no longer refer to anything, even if its name is used again.
RemoveRm(p) ==
    /\ pc[p] = "remove_rm"
    /\ UNCHANGED <<config, now, op, target_count, current>>
    /\ \/ /\ Exists(p)
          /\ containers' = RemoveName(containers, container[p][1])
          /\ calls' = [calls EXCEPT ![p].rm = @ + 1, ![p].removed = @ + 1]
          /\ todo' = [todo EXCEPT ![p] = IF @ > 0 THEN @ - 1 ELSE 0]
          /\ pc' = [pc EXCEPT ![p] = AfterRemove(p)]
          /\ container' = [q \in Procs |->
                              IF q = p THEN Returned(p)
                              ELSE IF /\ pc[q] \in {"remove_stop", "remove_rm"}
                                      /\ container[q] = container[p]
                              THEN <<>> ELSE container[q]]
          /\ UNCHANGED response
       \/ /\ calls' = [calls EXCEPT ![p].rm = @ + 1]
          /\ pc' = [pc EXCEPT ![p] = RaisePc(p)]
          /\ response' = [response EXCEPT ![p] = RaiseResponse(p)]
          /\ container' = [container EXCEPT ![p] = <<>>]
          /\ UNCHANGED <<containers, todo>>

\* ------------------------------------------------------------ the routes
\* Flask dispatches a request to a thread as soon as the server runs; no
\* lock is taken anywhere in the handlers.
\* the handlers serialized by a lock held from the count to the response
CanStartLocked(p) ==
    /\ p \in Handlers /\ pc[p] = "idle" /\ pc[Main] = "serving"
    /\ \A q \in Handlers \ {p} : pc[q] \in {"idle", "done"}

CanStart(p) == p \in Handlers /\ pc[p] = "idle" /\ pc[Main] = "serving"

\* the limit checks with the boundary left out
at_max_strict(cur) == cur > MAX_CONTAINERS

at_min_strict(cur) == cur < MIN_CONTAINERS

\* the range check without its lower bound
out_of_range_above(t) == t > MAX_CONTAINERS

\* the range check without its upper bound
out_of_range_below(t) == t < MIN_CONTAINERS

\* a target equal to the count sent into the loop of creates
branch_inclusive(diff) ==
    IF diff >= 0 THEN "create_name" ELSE "remove_select"

\* if current >= MAX_CONTAINERS
at_max(cur) == cur >= MAX_CONTAINERS

\* if current <= MIN_CONTAINERS
at_min(cur) == cur <= MIN_CONTAINERS

\* if target_count < MIN_CONTAINERS or target_count > MAX_CONTAINERS
out_of_range(t) == t < MIN_CONTAINERS \/ t > MAX_CONTAINERS

\* if diff > 0: ... elif diff < 0: ... (else straight to the second count)
branch(diff) ==
    IF diff > 0 THEN "create_name"
    ELSE IF diff < 0 THEN "remove_select"
    ELSE "reread"

\* scale_up() up to the limit check
ScaleUp(p) ==
    /\ CanStart(p)
    /\ UNCHANGED <<config, containers, now, target_count, todo, container>>
    /\ op' = [op EXCEPT ![p] = "up"]
    /\ \E listOk \in BOOLEAN :
        LET cur == get_running_count(containers, listOk)
        IN  /\ current' = [current EXCEPT ![p] = cur]
            /\ calls' = [calls EXCEPT ![p] = Counted(@, listOk)]
            /\ IF at_max(cur)
               THEN /\ response' = [response EXCEPT ![p] = LimitResponse("max", cur)]
                    /\ pc' = [pc EXCEPT ![p] = "done"]
               ELSE /\ pc' = [pc EXCEPT ![p] = "create_name"]
                    /\ UNCHANGED response

\* scale_down() up to the limit check
ScaleDown(p) ==
    /\ CanStart(p)
    /\ UNCHANGED <<config, containers, now, target_count, todo, container>>
    /\ op' = [op EXCEPT ![p] = "down"]
    /\ \E listOk \in BOOLEAN :
        LET cur == get_running_count(containers, listOk)
        IN  /\ current' = [current EXCEPT ![p] = cur]
            /\ calls' = [calls EXCEPT ![p] = Counted(@, listOk)]
            /\ IF at_min(cur)
               THEN /\ response' = [response EXCEPT ![p] = LimitResponse("min", cur)]
                    /\ pc' = [pc EXCEPT ![p] = "done"]
               ELSE /\ pc' = [pc EXCEPT ![p] = "remove_select"]
                    /\ UNCHANGED response

\* The outcome of scale_set()'s validation of the body: the response it
\* returns at once, or the target it goes on with.
Validate(data) ==
    IF data.json # "object" THEN [go |-> FALSE, resp |-> ErrorResponse]
    ELSE IF get_count(data) = Null
    THEN [go |-> FALSE, resp |-> BadRequest("missing")]
    ELSE IF ~int_of(get_count(data)).ok
    THEN [go |-> FALSE, resp |-> ErrorResponse]
    ELSE IF out_of_range(int_of(get_count(data)).val)
    THEN [go |-> FALSE, resp |-> BadRequest("range")]
    ELSE [go |-> TRUE, target |-> int_of(get_count(data)).val]

\* scale_set() up to the choice between creating and removing
ScaleSet(p, data) ==
    /\ CanStart(p)
    /\ UNCHANGED <<config, containers, now, container>>
    /\ op' = [op EXCEPT ![p] = "set"]
    /\ LET v == Validate(data)
       IN  IF ~v.go
           THEN /\ response' = [response EXCEPT ![p] = v.resp]
                /\ pc' = [pc EXCEPT ![p] = "done"]
                /\ UNCHANGED <<target_count, current, todo, calls>>
           ELSE \E listOk \in BOOLEAN :
                LET cur == get_running_count(containers, listOk)
                    diff == v.target - cur
                IN  /\ target_count' = [target_count EXCEPT ![p] = v.target]
                    /\ current' = [current EXCEPT ![p] = cur]
                    /\ calls' = [calls EXCEPT ![p] = Counted(@, listOk)]
                    /\ todo' = [todo EXCEPT ![p] = IF diff < 0 THEN 0 - diff ELSE diff]
                    /\ pc' = [pc EXCEPT ![p] = branch(diff)]
                    /\ UNCHANGED response

SuccessMessage(p) ==
    CASE op[p] = "up" -> "scaled_up"
      [] op[p] = "down" -> "scaled_down"
      [] op[p] = "set" -> "scaled_to"

\* new_count = get_running_count() and the success response
Reread(p) ==
    /\ pc[p] = "reread"
    /\ UNCHANGED <<config, containers, now, op, target_count, current, todo, container>>
    /\ \E listOk \in BOOLEAN :
        LET new_count == get_running_count(containers, listOk)
        IN  /\ calls' = [calls EXCEPT ![p] = Counted(@, listOk)]
            /\ response' = [response EXCEPT ![p] =
                    WithName(SuccessResponse(SuccessMessage(p), current[p], new_count), p)]
            /\ pc' = [pc EXCEPT ![p] = "done"]

\* GET /status: the listing with one entry per managed container; reading
\* c.image asks the runtime for the image of each container and may fail.
StatusResponse(cs) ==
    [status |-> 200,
     total_containers |-> Len(cs),
     running_containers |-> Len(running(cs)),
     min_containers |-> MIN_CONTAINERS,
     max_containers |-> MAX_CONTAINERS,
     containers |-> [i \in 1..Len(cs) |->
                        [name |-> cs[i].name, status |-> cs[i].status]]]

Status(p) ==
    /\ CanStart(p)
    /\ UNCHANGED <<config, containers, now, target_count, current, todo, container>>
    /\ op' = [op EXCEPT ![p] = "status"]
    /\ pc' = [pc EXCEPT ![p] = "done"]
    /\ \E listOk \in BOOLEAN :
        LET cs == get_managed_containers(containers, listOk)
        IN  /\ calls' = [calls EXCEPT ![p] = Listed(@)]
            /\ \/ response' = [response EXCEPT ![p] = StatusResponse(cs)]
               \/ /\ cs # <<>>
                  /\ response' = [response EXCEPT ![p] = ErrorResponse]

\* The response is sent and the thread is free for the next request.
Respond(p) ==
    /\ p \in Handlers
    /\ pc[p] = "done"
    /\ UNCHANGED <<config, containers, now>>
    /\ pc' = [pc EXCEPT ![p] = "idle"]
    /\ op' = [op EXCEPT ![p] = "none"]
    /\ target_count' = [target_count EXCEPT ![p] = 0]
    /\ current' = [current EXCEPT ![p] = 0]
    /\ todo' = [todo EXCEPT ![p] = 0]
    /\ container' = [container EXCEPT ![p] = <<>>]
    /\ response' = [response EXCEPT ![p] = NoResponse]
    /\ calls' = [calls EXCEPT ![p] = NoCalls]

\* ---------------------------------------------------------------- startup
\* the startup loop creating one container whatever the shortfall
shortfall_one(cur) == 1

\* range(MIN_CONTAINERS - current)
shortfall(cur) == MIN_CONTAINERS - cur

\* The __main__ block up to the loop of creates
Startup ==
    /\ pc[Main] = "startup"
    /\ UNCHANGED <<config, containers, now, op, target_count, container, response>>
    /\ \E listOk \in BOOLEAN :
        LET cur == get_running_count(containers, listOk)
        IN  /\ current' = [current EXCEPT ![Main] = cur]
            /\ calls' = [calls EXCEPT ![Main] = Counted(@, listOk)]
            /\ IF cur < MIN_CONTAINERS
               THEN /\ todo' = [todo EXCEPT ![Main] = shortfall(cur)]
                    /\ pc' = [pc EXCEPT ![Main] = "create_name"]
               ELSE /\ pc' = [pc EXCEPT ![Main] = "serving"]
                    /\ UNCHANGED todo

\* int(datetime.now().timestamp()) moves on
Tick ==
    /\ now < MaxClock
    /\ now' = now + 1
    /\ UNCHANGED <<config, containers, pc, op, target_count, current, todo,
                   container, response, calls>>

\* ------------------------------------------------------- specifications
Next ==
    \/ Startup
    \/ Tick
    \/ \E p \in Handlers : ScaleUp(p)
    \/ \E p \in Handlers : ScaleDown(p)
    \/ \E p \in Handlers : \E data \in Bodies : ScaleSet(p, data)
    \/ \E p \in Procs : CreateName(p)
    \/ \E p \in Procs : CreateRun(p)
    \/ \E p \in Handlers : RemoveSelect(p)
    \/ \E p \in Handlers : RemoveStop(p)
    \/ \E p \in Handlers : RemoveRm(p)
    \/ \E p \in Handlers : Reread(p)
    \/ \E p \in Handlers : Status(p)
    \/ \E p \in Handlers : Respond(p)

\* Requests handled by concurrent threads
Spec == Init /\ [][Next]_vars

\* A server with one request thread
Single == {1}

NextSeq ==
    \/ Startup
    \/ \E p \in Single : ScaleUp(p)
    \/ \E p \in Single : ScaleDown(p)
    \/ \E p \in Single : \E data \in Bodies : ScaleSet(p, data)
    \/ \E p \in Single \cup {Main} : CreateName(p)
    \/ \E p \in Single \cup {Main} : CreateRun(p)
    \/ \E p \in Single : RemoveSelect(p)
    \/ \E p \in Single : RemoveStop(p)
    \/ \E p \in Single : RemoveRm(p)
    \/ \E p \in Single : Reread(p)
    \/ \E p \in Single : Status(p)
    \/ \E p \in Single : Respond(p)

\* Requests handled one at a time, all within one second of the clock (the
\* timestamp enters nothing but the names create_container composes)
SpecSeq == Init /\ [][NextSeq]_vars

\* One POST /scale/up on each thread, all in progress at the same time
NextRace ==
    \/ Startup
    \/ Tick
    \/ \E p \in Handlers : ScaleUp(p)
    \/ \E p \in Procs : CreateName(p)
    \/ \E p \in Procs : CreateRun(p)
    \/ \E p \in Handlers : Reread(p)

SpecRace == Init /\ [][NextRace]_vars

\* One POST /scale/down on each thread, all in progress at the same time
NextDown ==
    \/ Startup
    \/ \E p \in Handlers : ScaleDown(p)
    \/ \E p \in Procs : CreateName(p)
    \/ \E p \in Procs : CreateRun(p)
    \/ \E p \in Handlers : RemoveSelect(p)
    \/ \E p \in Handlers : RemoveStop(p)
    \/ \E p \in Handlers : RemoveRm(p)
    \/ \E p \in Handlers : Reread(p)

SpecDown == Init /\ [][NextDown]_vars

\* scale_up and scale_down requests handled one at a time while the clock
\* runs, on a runtime that holds no container when the program starts: every
\* name in it was composed by create_container().
InitEmpty == Init /\ docker_client /\ containers = <<>>

NextNames ==
    \/ Startup
    \/ Tick
    \/ \E p \in Single : ScaleUp(p)
    \/ \E p \in Single : ScaleDown(p)
    \/ \E p \in Single \cup {Main} : CreateName(p)
    \/ \E p \in Single \cup {Main} : CreateRun(p)
    \/ \E p \in Single : RemoveSelect(p)
    \/ \E p \in Single : RemoveStop(p)
    \/ \E p \in Single : RemoveRm(p)
    \/ \E p \in Single : Reread(p)
    \/ \E p \in Single : Respond(p)

SpecNames == InitEmpty /\ [][NextNames]_vars

\* Requests handled one at a time on a runtime whose list query answers
\* every get_running_count(), started with a running count within
\* [MIN_CONTAINERS, MAX_CONTAINERS].
InitSteady ==
    /\ Init
    /\ docker_client
    /\ MIN_CONTAINERS <= RunningCount
    /\ RunningCount <= MAX_CONTAINERS

CountsOk == \A p \in Procs : ~calls[p].countErr

NextSteady ==
    \/ Startup /\ CountsOk'
    \/ \E p \in Single : ScaleUp(p) /\ CountsOk'
    \/ \E p \in Single : ScaleDown(p) /\ CountsOk'
    \/ \E p \in Single : \E data \in Bodies : ScaleSet(p, data) /\ CountsOk'
    \/ \E p \in Single : CreateName(p)
    \/ \E p \in Single : CreateRun(p)
    \/ \E p \in Single : RemoveSelect(p)
    \/ \E p \in Single : RemoveStop(p)
    \/ \E p \in Single : RemoveRm(p)
    \/ \E p \in Single : Reread(p) /\ CountsOk'
    \/ \E p \in Single : Respond(p)

SpecSteady == InitSteady /\ [][NextSteady]_vars

\* ================================================================ claims
\* A request of kind o that has answered
Answered(p, o) == op[p] = o /\ pc[p] = "done"

NoMutation(p) ==
    /\ calls[p].create = 0 /\ calls[p].run = 0
    /\ calls[p].remove = 0 /\ calls[p].stop = 0 /\ calls[p].rm = 0

\* C1: a scale_up that reads a running count current >= MAX creates nothing
\* (no create_container call, no runtime run call) and answers 400 with
\* current_count = current; when its list query succeeded, current is the
\* number of running managed containers the runtime holds.
C1_ScaleUpAtMax ==
    \A p \in Handlers :
        (op[p] = "up" /\ current[p] >= MAX_CONTAINERS) =>
            /\ pc[p] = "done"
            /\ response[p].status = 400
            /\ response[p].success = FALSE
            /\ response[p].current_count = current[p]
            /\ NoMutation(p)
            /\ ~calls[p].countErr => current[p] = RunningCount

C1_Witness ==
    \E p \in Handlers :
        /\ Answered(p, "up")
        /\ current[p] >= MAX_CONTAINERS
        /\ ~calls[p].countErr
        /\ RunningCount = MAX_CONTAINERS
        /\ response[p].status = 400

\* C2: a scale_down that reads a running count current <= MIN stops and
\* removes nothing and answers 400 with current_count = current.
C2_ScaleDownAtMin ==
    \A p \in Handlers :
        (op[p] = "down" /\ current[p] <= MIN_CONTAINERS) =>
            /\ pc[p] = "done"
            /\ response[p].status = 400
            /\ response[p].success = FALSE
            /\ response[p].current_count = current[p]
            /\ NoMutation(p)
            /\ ~calls[p].countErr => current[p] = RunningCount

C2_Witness ==
    \E p \in Handlers :
        /\ Answered(p, "down")
        /\ current[p] <= MIN_CONTAINERS
        /\ ~calls[p].countErr
        /\ RunningCount = MIN_CONTAINERS
        /\ RunningCount > 0
        /\ response[p].status = 400

\* A scale_set request that passed validation: it read the count
Reading(p) ==
    /\ op[p] = "set"
    /\ pc[p] # "idle"
    /\ (pc[p] = "done" =>
            response[p].status = 200 \/ calls[p].create > 0 \/ calls[p].remove > 0)

Max(a, b) == IF a >= b THEN a ELSE b

\* C3 as stated: every scale_to(target) within [MIN, MAX] has issued
\* exactly target - current create calls (target > current) or exactly
\* current - target remove calls (target < current) when it answers.
C3_Original ==
    \A p \in Handlers :
        (Reading(p) /\ pc[p] = "done") =>
            /\ target_count[p] > current[p] =>
                   calls[p].create = target_count[p] - current[p]
            /\ target_count[p] < current[p] =>
                   calls[p].remove = current[p] - target_count[p]

\* C3 amended: scale_to(target) never issues more than target - current
\* create calls or current - target remove calls and never both kinds; it
\* issues exactly that many when it answers success (no call failed), and
\* when it answers 500 the failed call is the last one it issued.
C3_ScaleToCalls ==
    \A p \in Handlers :
        Reading(p) =>
            /\ target_count[p] >= MIN_CONTAINERS
            /\ target_count[p] <= MAX_CONTAINERS
            /\ calls[p].create <= Max(target_count[p] - current[p], 0)
            /\ calls[p].remove <= Max(current[p] - target_count[p], 0)
            /\ calls[p].run <= calls[p].create
            /\ calls[p].stop <= calls[p].remove
            /\ calls[p].rm <= calls[p].stop
            /\ (pc[p] = "done" /\ response[p].status = 200) =>
                   /\ calls[p].create = Max(target_count[p] - current[p], 0)
                   /\ calls[p].created = calls[p].create
                   /\ calls[p].run = calls[p].create
                   /\ calls[p].remove = Max(current[p] - target_count[p], 0)
                   /\ calls[p].removed = calls[p].remove
                   /\ calls[p].stop = calls[p].remove
                   /\ calls[p].rm = calls[p].remove
            /\ (pc[p] = "done" /\ response[p].status = 500) =>
                   calls[p].create + calls[p].remove
                       = calls[p].created + calls[p].removed + 1

C3_Witness ==
    \E p \in Handlers :
        /\ Answered(p, "set")
        /\ response[p].status = 200
        /\ \/ calls[p].create = 2 /\ target_count[p] = current[p] + 2
           \/ calls[p].remove = 2 /\ target_count[p] = current[p] - 2

OutOfRangeBody(data) ==
    /\ data.json = "object"
    /\ data.count.type \notin {"absent", "null"}
    /\ int_of(data.count).ok
    /\ \/ int_of(data.count).val < MIN_CONTAINERS
       \/ int_of(data.count).val > MAX_CONTAINERS

\* C5: scale_to(target) with target < MIN or target > MAX answers 400 at
\* once: it issues no list, run, stop or remove call and leaves the
\* containers as they are.
C5_OutOfRange ==
    [][\A p \in Handlers :
          (pc[p] = "idle" /\ op'[p] = "set") =>
          \A data \in Bodies :
          (OutOfRangeBody(data) /\ ScaleSet(p, data)) =>
              /\ pc'[p] = "done"
              /\ response'[p].status = 400
              /\ response'[p].success = FALSE
              /\ calls'[p] = NoCalls
              /\ containers' = containers]_vars

C5_Witness ==
    \E p \in Handlers :
        /\ Answered(p, "set")
        /\ response[p] = BadRequest("range")
        /\ calls[p] = NoCalls
        /\ docker_client
        /\ MIN_CONTAINERS > 0

C7_NoLock ==
    \A p, q \in Handlers :
        (/\ p # q
         /\ pc[p] = "idle"
         /\ op[q] = "up"
         /\ pc[q] \in {"create_name", "create_run"}) =>
            /\ current[q] < MAX_CONTAINERS
            /\ ENABLED ScaleUp(p)

C7_Witness ==
    \E p, q \in Handlers :
        /\ p # q
        /\ Answered(p, "up") /\ Answered(q, "up")
        /\ response[p].status = 200 /\ response[q].status = 200
        /\ response[p].previous_count = MAX_CONTAINERS - 1
        /\ response[q].previous_count = MAX_CONTAINERS - 1
        /\ ~calls[p].countErr /\ ~calls[q].countErr
        /\ calls[p].created = 1 /\ calls[q].created = 1
        /\ response[q].current_count = MAX_CONTAINERS + 1
        /\ RunningCount = MAX_CONTAINERS + 1

\* A scale_set request that has answered after one of its create or remove
\* calls failed
FailedPartway(p) ==
    /\ Reading(p)
    /\ pc[p] = "done"
    /\ calls[p].create + calls[p].remove > calls[p].created + calls[p].removed

\* C8: when the k-th create or remove call of a scale_to fails, the request
\* answers 500, the failed call is the last it issued (k <= |target -
\* current|), and the k - 1 completed ones are kept: nothing is undone (no
\* stop or remove after creates, no run after removes), so with requests
\* handled one at a time and the count read from a successful query the
\* runtime holds current + (k - 1) running containers after creates, and
\* current - (k - 1), less the one a failed remove managed to stop, after
\* removes.  Once it has answered the request issues no call.
C8_NoRollback ==
    /\ [](\A p \in Handlers :
            FailedPartway(p) =>
                /\ response[p].status = 500 /\ response[p].success = FALSE
                /\ calls[p].create + calls[p].remove
                       = calls[p].created + calls[p].removed + 1
                /\ target_count[p] > current[p] =>
                       /\ calls[p].create <= target_count[p] - current[p]
                       /\ calls[p].remove = 0 /\ calls[p].stop = 0 /\ calls[p].rm = 0
                       /\ ~calls[p].countErr =>
                              RunningCount = current[p] + calls[p].created
                /\ target_count[p] < current[p] =>
                       /\ calls[p].remove <= current[p] - target_count[p]
                       /\ calls[p].create = 0 /\ calls[p].run = 0
                       /\ ~calls[p].countErr =>
                              RunningCount \in {current[p] - calls[p].removed,
                                                current[p] - calls[p].removed - 1})
    /\ [][\A p \in Handlers :
            pc[p] = "done" =>
                /\ containers' = containers
                /\ calls'[p] = calls[p] \/ pc'[p] = "idle"]_vars

C8_Witness ==
    \E p \in Handlers :
        /\ FailedPartway(p)
        /\ docker_client
        /\ ~calls[p].countErr
        /\ calls[p].create = 2
        /\ calls[p].created = 1
        /\ RunningCount = current[p] + 1
        /\ response[p].status = 500

\* The body carries no count, or a count that is not a number
InvalidBody(data) ==
    /\ data.json = "object"
    /\ \/ data.count.type \in {"absent", "null"}
       \/ /\ data.count.type = "str"
          /\ \E i \in 1..Len(data.count.chars) :
                ~IsDigit(data.count.chars[i])
                /\ data.count.chars[i] \notin {" ", "-", "+"}

\* C9: a scale_to whose count is missing or non-numeric answers 400 and
\* issues no runtime call.
C9_InvalidInput ==
    [][\A p \in Handlers :
          (pc[p] = "idle" /\ op'[p] = "set") =>
          \A data \in Bodies :
          (InvalidBody(data) /\ ScaleSet(p, data)) =>
              /\ pc'[p] = "done"
              /\ response'[p].status = 400
              /\ calls'[p] = NoCalls]_vars

\* C10: with the runtime adapter unavailable every scale_up, scale_down and
\* scale_to answers failure and issues no create, stop or remove call.
C10_Degraded ==
    ~docker_client =>
        \A p \in Handlers :
            /\ calls[p].run = 0 /\ calls[p].stop = 0 /\ calls[p].rm = 0
            /\ (pc[p] = "done" /\ op[p] \in {"up", "down", "set"}) =>
                   response[p].success = FALSE

C12_NoRunning ==
    [][\A p \in Handlers :
          (/\ pc[p] = "remove_select"
           /\ pc'[p] # "remove_select"
           /\ docker_client
           /\ RunningCount = 0) =>
              /\ pc'[p] = "done"
              /\ response'[p] = Exception("No running containers to remove")
              /\ container'[p] = <<>>
              /\ calls'[p].remove = calls[p].remove + 1
              /\ calls'[p].stop = calls[p].stop
              /\ calls'[p].rm = calls[p].rm
              /\ containers' = containers]_vars

C12_Witness ==
    \E p \in Handlers :
        /\ docker_client
        /\ Answered(p, "down")
        /\ response[p] = Exception("No running containers to remove")
        /\ calls[p].remove = 1 /\ calls[p].stop = 0 /\ calls[p].rm = 0
        /\ ~calls[p].countErr /\ current[p] = 1
        /\ RunningCount = 0
        /\ \E i \in 1..Len(containers) :
              /\ startswith_prefix(containers[i])
              /\ containers[i].status = "exited"
        /\ \A q \in Handlers \ {p} : pc[q] = "remove_rm"

\* The running prefix-named containers, counted from the names
PrefixRunning ==
    Cardinality({i \in 1..Len(containers) :
                    containers[i].name.pre /\ containers[i].status = "running"})

\* The containers without the name prefix, in the runtime's order
NonPrefix(cs) == SelectSeq(cs, LAMBDA c : ~c.name.pre)

\* C13: whatever the requests and the startup block do, the containers
\* without the name prefix stay as they are, labelled managed_by or not: no
\* step changes them, none is selected for stop or remove, none is listed by
\* /status, and every count read or reported counts prefix-named containers
\* only.
C13_ForeignUntouched ==
    /\ [](\A p \in Handlers :
            /\ (pc[p] \in {"remove_stop", "remove_rm"} /\ container[p] # <<>>) =>
                   container[p][1].pre
            /\ pc[p] = "create_run" => container[p][1].pre
            /\ (Answered(p, "status") /\ response[p].status = 200) =>
                   /\ \A i \in DOMAIN response[p].containers :
                          response[p].containers[i].name.pre
                   /\ response[p].total_containers = Len(response[p].containers)
                   /\ response[p].running_containers \in {0, PrefixRunning}
            /\ (pc[p] = "done" /\ response[p].status = 200 /\ op[p] # "status") =>
                   response[p].current_count \in {0, PrefixRunning})
    /\ [][/\ NonPrefix(containers') = NonPrefix(containers)
          /\ \A p \in Procs :
                current'[p] # current[p] => current'[p] \in {0, PrefixRunning}]_vars

C13_Witness ==
    \E p \in Handlers :
        /\ Answered(p, "status")
        /\ response[p].status = 200
        /\ response[p].total_containers = 1
        /\ response[p].running_containers = 1
        /\ Len(containers) = 2
        /\ \E i \in 1..Len(containers) :
              /\ ~containers[i].name.pre
              /\ containers[i].managed_by
              /\ containers[i].status = "running"

\* C14: every name create_container() composes differs from the name of
\* every managed container that exists when it is composed and handed to
\* containers.run.
C14_UniqueNames ==
    \A p \in Procs :
        pc[p] = "create_run" =>
            container[p][1] \notin Names(managed(containers))

\* C15: get_managed_containers never raises.  A count taken without the
\* docker client, or from a list query that failed, is 0 and the caller
\* carries on as it does on a runtime without managed containers: no read
\* ends in a 500 of its own, scale_up goes on to create, scale_down answers
\* the limit error with current_count 0, the startup block sets out to
\* create MIN containers, the second count of a request reports 0, and
\* /status without the docker client answers the empty listing.
C15_EmptyOnError ==
    [][\A p \in Procs :
          /\ (calls'[p].countErr /\ ~calls[p].countErr) =>
                IF pc[p] = "reread"
                THEN /\ response'[p].status = 200
                     /\ response'[p].current_count = 0
                ELSE /\ current'[p] = 0
                     /\ response'[p].status # 500
                     /\ op'[p] = "up" => pc'[p] = "create_name"
                     /\ op'[p] = "down" =>
                            /\ pc'[p] = "done"
                            /\ response'[p].status = 400
                            /\ response'[p].current_count = 0
                     /\ op'[p] = "startup" => todo'[p] = MIN_CONTAINERS
          /\ (pc[p] = "idle" /\ op'[p] = "status" /\ ~docker_client) =>
                /\ response'[p] = StatusResponse(<<>>)
                /\ calls'[p] = NoCalls]_vars

C15_Witness ==
    \E p \in Handlers :
        /\ docker_client
        /\ op[p] = "up"
        /\ pc[p] = "create_name"
        /\ calls[p].countErr
        /\ calls[p].list = 1
        /\ current[p] = 0
        /\ RunningCount = 1
        /\ MAX_CONTAINERS = 1

\* The running prefix-named containers in the order of the runtime's listing
RunningListed ==
    SelectSeq(containers, LAMBDA c : c.name.pre /\ c.status = "running")

StatusOf(n) ==
    {containers[i].status : i \in {j \in 1..Len(containers) : containers[j].name = n}}

\* C17: remove_container stops the selected container, then removes it.  A
\* remove call is issued only on the container whose stop just returned (it
\* is stopped by then), one remove per stop; a failing stop ends the request
\* with 500 and no remove; a failing remove ends it with 500 as well; the
\* failure response carries no container name, and the success response of
\* scale_down names the container that is gone.
C17_StopThenRemove ==
    /\ [](\A p \in Handlers :
            /\ calls[p].rm <= calls[p].stop
            /\ calls[p].stop <= calls[p].rm + 1
            /\ pc[p] = "remove_rm" =>
                   /\ container[p] # <<>>
                   /\ calls[p].stop = calls[p].rm + 1
                   /\ StatusOf(container[p][1]) = {"exited"}
            /\ (pc[p] = "done" /\ op[p] \in {"down", "set"}
                    /\ response[p].status = 500) =>
                   /\ container[p] = <<>>
                   /\ DOMAIN response[p] = {"status", "success", "message"}
            /\ (Answered(p, "down") /\ response[p].status = 200) =>
                   /\ calls[p].stop = 1 /\ calls[p].rm = 1
                   /\ response[p].removed_container \notin Names(containers))
    /\ [][\A p \in Handlers :
            /\ calls'[p].rm = calls[p].rm + 1 =>
                   /\ pc[p] = "remove_rm"
                   /\ calls'[p].stop = calls[p].stop
                   /\ \/ /\ containers' = containers
                         /\ pc'[p] = "done"
                         /\ response'[p].status = 500
                      \/ /\ Names(containers') = Names(containers) \ {container[p][1]}
                         /\ Len(containers') = Len(containers) - 1
            /\ (pc[p] = "remove_stop" /\ pc'[p] # "remove_stop") =>
                   /\ calls'[p].stop = calls[p].stop + 1
                   /\ calls'[p].rm = calls[p].rm
                   /\ \/ /\ pc'[p] = "remove_rm"
                         /\ container'[p] = container[p]
                         /\ StatusOf(container[p][1])' = {"exited"}
                      \/ /\ pc'[p] = "done"
                         /\ response'[p].status = 500
                         /\ containers' = containers
            /\ pc[p] = "done" => calls'[p].rm \in {calls[p].rm, 0}]_vars

\* A scale_to whose second remove_container stopped its container and then
\* failed to remove it
C17_Witness ==
    \E p \in Handlers :
        /\ Answered(p, "set")
        /\ response[p].status = 500
        /\ calls[p].remove = 2 /\ calls[p].removed = 1
        /\ calls[p].stop = 2 /\ calls[p].rm = 2
        /\ \E i \in 1..Len(containers) :
              containers[i].name.pre /\ containers[i].status = "exited"

\* C18: with requests handled one at a time, every count read from a
\* successful list query and a start within [MIN, MAX], the number of running
\* managed containers is within [MIN, MAX] in every state, between requests
\* and in the middle of one, after successes and after failures.
C18_WithinLimits ==
    /\ MIN_CONTAINERS <= RunningCount
    /\ RunningCount <= MAX_CONTAINERS

\* A scale_to from 0 to 2 whose second create failed
C18_Witness ==
    \E p \in Handlers :
        /\ Answered(p, "set")
        /\ response[p].status = 500
        /\ current[p] = 0 /\ target_count[p] = 2
        /\ calls[p].create = 2 /\ calls[p].created = 1
        /\ RunningCount = 1

====
